---------------------------- MODULE Spec2Model ----------------------------
(***************************************************************************)
(* Track-analysis pipeline of restwithgps.py:                              *)
(*   _get_point (point source) -> AbstractPointStream.get_point (the       *)
(*   10-second resampler) -> get_stop_points (stop/move classifier and     *)
(*   route simplifier).                                                    *)
(*                                                                         *)
(* Numbers.  Timestamps are whole seconds since the first raw sample.      *)
(* Latitude and longitude are integers in a fixed-point unit; one grid     *)
(* step is Grid units, so the mean of up to six grid positions is exact.   *)
(* Distances are in the same unit on a locally flat Earth (KmScale units   *)
(* per kilometre), bearings are in milliradians.                           *)
(***************************************************************************)
EXTENDS Integers, Sequences, FiniteSets

\* ------------------------------------------------------------- bounds
\* Longest raw stream the point source produces.
MaxRaw == 5

\* --------------------------------------------------- program constants
POINT_INTERVAL_TIME == 10
MIN_SPEED == 5
MIN_STOP == 300
TIME_ZONE_DIFF == 7200
\* datetime.timedelta keeps days and seconds apart; .seconds is the part
\* below one day.
SecondsPerDay == 86400

\* Fixed-point scale of the coordinates: one grid step.
Grid == 60
\* Coordinate units per kilometre: one grid step in 10 s is exactly 5 km/h.
KmScale == 4320

\* Most stops in a list handed to _mark_stops.
MaxStops == 3

\* ------------------------------------------------------------- inputs
\* Seconds between two consecutive raw samples (non-decreasing timestamps).
Deltas == {0, 5, POINT_INTERVAL_TIME, SecondsPerDay}
\* Displacement <<dlat, dlon>> between two consecutive raw samples.
Moves == {<<0, 0>>, <<Grid, 0>>, <<0, Grid>>}

\* Seconds a stop interval lasts: below, at and above MIN_STOP, and a day
\* and more.
Durations == {0, 299, MIN_STOP, 330, SecondsPerDay, SecondsPerDay + 330}
\* Seconds from the end of a stop interval to the start of the next: one
\* moving step and the step that opens the next interval.
StopGap == 2 * POINT_INTERVAL_TIME

None == [none |-> TRUE]

VARIABLES
    raw,          \* the Points _get_point has yielded so far
    points,       \* self._points, the resampler's buffer
    held,         \* get_point's local `point` while suspended at the yield in the loop
    exhausted,    \* _get_point has ended and get_point has flushed
    out,          \* the Points get_point has yielded so far
    pc,           \* "pull" | "process" | "returned" | "crashed"
    point,        \* get_stop_points' loop variable
    stop_points,
    stop_point,
    prev_point,
    route,
    prev_vector,
    steps,        \* how each processed sample was classified
    sizes,        \* len(self._points) at each yield of get_point
    result,       \* what get_stop_points returned
    \* _mark_stops, on the stops get_stop_points returned
    mark_pc,      \* "idle" | "loop" | "done"
    mark_next,    \* index of the stop the for loop visits next
    markers,      \* the markers added to the map so far
    \* cli_restwithgps.main
    cli_pc,       \* "idle" | "start" | "installed" | "parsed" | "logging" | "exited"
    argv,         \* the command line and the file it names
    args,         \* the Namespace get_opt returned
    stdout,
    stderr,
    exit_code

trackVars == <<raw, points, held, exhausted, out, pc, point, stop_points, stop_point,
               prev_point, route, prev_vector, steps, sizes, result>>

markVars == <<mark_pc, mark_next, markers>>

cliVars == <<cli_pc, argv, args, stdout, stderr, exit_code>>

vars == <<trackVars, markVars, cliVars>>

\* ------------------------------------------------------------ helpers
Abs(x) == IF x < 0 THEN -x ELSE x

Range(s) == {s[i] : i \in 1..Len(s)}

RECURSIVE SumLat(_)
SumLat(s) == IF s = <<>> THEN 0 ELSE s[1].latitude + SumLat(Tail(s))

RECURSIVE SumLon(_)
SumLon(s) == IF s = <<>> THEN 0 ELSE s[1].longitude + SumLon(Tail(s))

\* Largest r in lo..hi with r * r <= n.
RECURSIVE SqrtIn(_, _, _)
SqrtIn(n, lo, hi) ==
    IF lo >= hi THEN lo
    ELSE LET mid == (lo + hi + 1) \div 2
         IN  IF mid * mid <= n THEN SqrtIn(n, mid, hi) ELSE SqrtIn(n, lo, mid - 1)

ISqrt(n) == SqrtIn(n, 0, n)

\* atan(y / x) in milliradians for 0 <= y <= x, x > 0, within 2 mrad.
Atan01(y, x) ==
    LET z == (1000 * y) \div x
    IN  (z * (785398 + (1000 - z) * (245 + (66 * z) \div 1000))) \div 1000000

\* math.atan2(y, x) in milliradians.
Atan2(y, x) ==
    IF x = 0 /\ y = 0 THEN 0
    ELSE LET ay == Abs(y)
             ax == Abs(x)
             a0 == IF ay <= ax THEN Atan01(ay, ax) ELSE 1571 - Atan01(ax, ay)
             a1 == IF x < 0 THEN 3142 - a0 ELSE a0
         IN  IF y < 0 THEN -a1 ELSE a1

\* ------------------------------------------------- geometry primitives
Pos(p) == <<p.latitude, p.longitude>>

get_distance(pos0, pos1) ==
    IF pos0 = pos1 THEN 0
    ELSE LET dlat == pos1[1] - pos0[1]
             dlon == pos1[2] - pos0[2]
         IN  ISqrt(dlat * dlat + dlon * dlon)

\* km / second * 3600 in whole km/h, rounded down; `km` is in coordinate
\* units.  Undefined for second = 0, where Python raises ZeroDivisionError.
get_speed(km, second) == (km * 3600) \div (KmScale * second)

get_vector(pos0, pos1) == Atan2(pos1[1] - pos0[1], pos1[2] - pos0[2])

\* timedelta.seconds of point2.timestamp - point1.timestamp.
ElapsedSeconds(point1, point2) == (point2.timestamp - point1.timestamp) % SecondsPerDay

get_speed_from_points(point1, point2) ==
    get_speed(get_distance(Pos(point1), Pos(point2)), ElapsedSeconds(point1, point2))

\* ---------------------------------------------------------- resampler
\* Mutant of Average: the bucket is stamped with its last sample's time.
AverageStampedLast(buf) ==
    [timestamp |-> buf[Len(buf)].timestamp,
     latitude  |-> SumLat(buf) \div Len(buf),
     longitude |-> SumLon(buf) \div Len(buf)]

\* The Point both yields of get_point build from the buffer.
Average(buf) ==
    [timestamp |-> buf[1].timestamp,
     latitude  |-> SumLat(buf) \div Len(buf),
     longitude |-> SumLon(buf) \div Len(buf)]

\* Mutant of InWindow: a point exactly one window after the anchor stays.
InWindowInclusive(buf, p) ==
    IF buf = <<>> THEN TRUE
    ELSE p.timestamp - buf[1].timestamp <= POINT_INTERVAL_TIME

\* The test that keeps a raw point in the current bucket.
InWindow(buf, p) ==
    IF buf = <<>> THEN TRUE
    ELSE p.timestamp - buf[1].timestamp < POINT_INTERVAL_TIME

\* The next Point of the source, d seconds and one move m after the last.
SourcePoint(d, m) ==
    IF raw = <<>>
    THEN [timestamp |-> 0, latitude |-> 0, longitude |-> 0]
    ELSE LET last == raw[Len(raw)]
         IN  [timestamp |-> last.timestamp + d,
              latitude  |-> last.latitude + m[1],
              longitude |-> last.longitude + m[2]]

AnalyzerUnchanged ==
    UNCHANGED <<point, stop_points, stop_point, prev_point, route, prev_vector,
                steps, result>>

\* The track analysis touches neither the map nor the command line.
OutsideUnchanged == UNCHANGED <<markVars, cliVars>>

\* The source yields a point that falls in the current bucket.
Buffer(d, m) ==
    LET p == SourcePoint(d, m)
    IN  /\ pc = "pull"
        /\ ~exhausted
        /\ Len(raw) < MaxRaw
        /\ InWindow(points, p)
        /\ raw' = Append(raw, p)
        /\ points' = Append(points, p)
        /\ UNCHANGED <<held, exhausted, out, pc, sizes>>
        /\ AnalyzerUnchanged
        /\ OutsideUnchanged

\* The source yields a point past the bucket: the bucket's average is
\* yielded to get_stop_points, the generator stays suspended holding p.
Emit(d, m) ==
    LET p == SourcePoint(d, m)
    IN  /\ pc = "pull"
        /\ ~exhausted
        /\ Len(raw) < MaxRaw
        /\ ~InWindow(points, p)
        /\ raw' = Append(raw, p)
        /\ out' = Append(out, Average(points))
        /\ sizes' = Append(sizes, Len(points))
        /\ point' = Average(points)
        /\ held' = p
        /\ pc' = "process"
        /\ UNCHANGED <<points, exhausted, stop_points, stop_point, prev_point,
                       route, prev_vector, steps, result>>
        /\ OutsideUnchanged

\* Mutant of Flush: the points still buffered at the end are dropped.
FlushDropsBuffer ==
    /\ pc = "pull"
    /\ ~exhausted
    /\ points # <<>>
    /\ exhausted' = TRUE
    /\ UNCHANGED <<raw, points, held, out, pc, sizes>>
    /\ AnalyzerUnchanged
    /\ OutsideUnchanged

\* The source ends with points buffered: the last bucket is flushed.
Flush ==
    /\ pc = "pull"
    /\ ~exhausted
    /\ points # <<>>
    /\ exhausted' = TRUE
    /\ out' = Append(out, Average(points))
    /\ sizes' = Append(sizes, Len(points))
    /\ point' = Average(points)
    /\ pc' = "process"
    /\ UNCHANGED <<raw, points, held, stop_points, stop_point, prev_point,
                   route, prev_vector, steps, result>>
    /\ OutsideUnchanged

\* ----------------------------------------------------- track analyzer
\* Mutant of OpenStop: the interval starts at the previous sample's time.
OpenStopAtPrevious(p) ==
    [latitude   |-> p.latitude,
     longitude  |-> p.longitude,
     start_time |-> prev_point.timestamp + TIME_ZONE_DIFF,
     end_time   |-> p.timestamp + TIME_ZONE_DIFF]

OpenStop(p) ==
    [latitude   |-> p.latitude,
     longitude  |-> p.longitude,
     start_time |-> p.timestamp + TIME_ZONE_DIFF,
     end_time   |-> p.timestamp + TIME_ZONE_DIFF]

\* Mutant of ExtendStop: the display offset is forgotten.
ExtendStopNoOffset(sp, p) == [sp EXCEPT !.end_time = p.timestamp]

\* Mutant of ExtendStop: the interval follows the sample's position.
ExtendStopMovesPosition(sp, p) ==
    [sp EXCEPT !.latitude = p.latitude,
               !.longitude = p.longitude,
               !.end_time = p.timestamp + TIME_ZONE_DIFF]

ExtendStop(sp, p) == [sp EXCEPT !.end_time = p.timestamp + TIME_ZONE_DIFF]

\* Mutant of SeedRoute: the first sample is not put on the route.
SeedRouteSkipped(r, p) == r

\* The route after the first sample.
SeedRoute(r, p) == Append(r, Pos(p))

\* Mutant of ExtendRoute: the vertex is inserted at the front.
ExtendRoutePrepending(r, p, vector, pv) ==
    IF Abs(vector - pv) >= 100 THEN <<Pos(p)>> \o r ELSE r

\* The route after a later sample whose step has bearing `vector`.
ExtendRoute(r, p, vector, pv) ==
    IF Abs(vector - pv) >= 100 THEN Append(r, Pos(p)) ELSE r

\* End of the loop body; the next() of the for loop resumes get_point, which
\* restarts the buffer with the point it holds.
Advance ==
    /\ prev_point' = point
    /\ points' = IF held # None THEN <<held>> ELSE points
    /\ held' = None
    /\ pc' = "pull"
    /\ UNCHANGED <<raw, exhausted, out, point, sizes, result>>
    /\ OutsideUnchanged

RouteStep ==
    LET vector == get_vector(Pos(prev_point), Pos(point))
    IN  /\ route' = ExtendRoute(route, point, vector, prev_vector)
        /\ prev_vector' = vector

ProcessFirst ==
    /\ pc = "process"
    /\ prev_point = None
    /\ route' = SeedRoute(route, point)
    /\ steps' = Append(steps, "first")
    /\ UNCHANGED <<stop_points, stop_point, prev_vector>>
    /\ Advance

\* get_speed divides by zero: ZeroDivisionError leaves get_stop_points.
ProcessZeroDivision ==
    /\ pc = "process"
    /\ prev_point # None
    /\ ElapsedSeconds(prev_point, point) = 0
    /\ pc' = "crashed"
    /\ UNCHANGED <<raw, points, held, exhausted, out, point, stop_points,
                   stop_point, prev_point, route, prev_vector, steps, sizes, result>>
    /\ OutsideUnchanged

ProcessStopped ==
    /\ pc = "process"
    /\ prev_point # None
    /\ ElapsedSeconds(prev_point, point) # 0
    /\ get_speed_from_points(prev_point, point) < MIN_SPEED
    /\ stop_point' = IF stop_point # None THEN ExtendStop(stop_point, point)
                     ELSE OpenStop(point)
    /\ steps' = Append(steps, "stopped")
    /\ UNCHANGED stop_points
    /\ RouteStep
    /\ Advance

\* Mutant of ProcessMoving: the closed interval is not cleared.
ProcessMovingKeepsOpen ==
    /\ pc = "process"
    /\ prev_point # None
    /\ ElapsedSeconds(prev_point, point) # 0
    /\ ~(get_speed_from_points(prev_point, point) < MIN_SPEED)
    /\ stop_points' = IF stop_point # None THEN Append(stop_points, stop_point)
                      ELSE stop_points
    /\ UNCHANGED stop_point
    /\ steps' = Append(steps, "moving")
    /\ RouteStep
    /\ Advance

ProcessMoving ==
    /\ pc = "process"
    /\ prev_point # None
    /\ ElapsedSeconds(prev_point, point) # 0
    /\ ~(get_speed_from_points(prev_point, point) < MIN_SPEED)
    /\ stop_points' = IF stop_point # None THEN Append(stop_points, stop_point)
                      ELSE stop_points
    /\ stop_point' = None
    /\ steps' = Append(steps, "moving")
    /\ RouteStep
    /\ Advance

\* get_point has nothing more to yield.
StreamEnded == IF exhausted THEN TRUE ELSE points = <<>>

\* Mutant of ReturnedStops: an interval still open is closed on return.
ReturnedStopsClosingOpen(sps, sp) == IF sp # None THEN Append(sps, sp) ELSE sps

\* What get_stop_points returns as its stops.
ReturnedStops(sps, sp) == sps

Return ==
    /\ pc = "pull"
    /\ StreamEnded
    /\ result' = [stops |-> ReturnedStops(stop_points, stop_point), route |-> route]
    /\ exhausted' = TRUE
    /\ pc' = "returned"
    /\ UNCHANGED <<raw, points, held, out, point, stop_points, stop_point,
                   prev_point, route, prev_vector, steps, sizes>>
    /\ OutsideUnchanged

\* ------------------------------------------------- stop markers (map)
\* int(seconds / 60 + 0.5) of the .seconds of end_time - start_time.
get_elapsed_time(sp) ==
    (2 * ((sp.end_time - sp.start_time) % SecondsPerDay) + 60) \div 120

\* The parts of the text: "{h}h {m}m" from an hour on, else "{m}m".
elapsed_time_to_str(elapsed_time) ==
    IF elapsed_time >= 60
    THEN [h |-> elapsed_time \div 60, m |-> elapsed_time % 60]
    ELSE [m |-> elapsed_time]

\* Mutant of TooShort: a stop of exactly MIN_STOP is skipped too.
TooShortInclusive(sp) == sp.end_time - sp.start_time <= MIN_STOP

\* The test that skips a stop; timedeltas compare by their full length.
TooShort(sp) == sp.end_time - sp.start_time < MIN_STOP

\* The Marker (with its popup) and CircleMarker added for a stop.
MarkerOf(sp) ==
    [location       |-> <<sp.latitude, sp.longitude>>,
     elapsed_time   |-> get_elapsed_time(sp),
     s_elapsed_time |-> elapsed_time_to_str(get_elapsed_time(sp))]

MarkUnchanged == UNCHANGED <<trackVars, cliVars>>

\* The loop visits a stop shorter than MIN_STOP: continue.
MarkSkip ==
    /\ mark_pc = "loop"
    /\ mark_next <= Len(result.stops)
    /\ TooShort(result.stops[mark_next])
    /\ mark_next' = mark_next + 1
    /\ UNCHANGED <<mark_pc, markers>>
    /\ MarkUnchanged

\* The loop visits any other stop: its markers are added to the map.
MarkPlace ==
    /\ mark_pc = "loop"
    /\ mark_next <= Len(result.stops)
    /\ ~TooShort(result.stops[mark_next])
    /\ markers' = Append(markers, MarkerOf(result.stops[mark_next]))
    /\ mark_next' = mark_next + 1
    /\ UNCHANGED mark_pc
    /\ MarkUnchanged

\* The loop is over.
MarkReturn ==
    /\ mark_pc = "loop"
    /\ mark_next > Len(result.stops)
    /\ mark_pc' = "done"
    /\ UNCHANGED <<mark_next, markers>>
    /\ MarkUnchanged

\* The stops list whose i-th interval lasts ds[i] seconds: the first one
\* opens at the second resampled sample, each at a place of its own.
RECURSIVE StopsOf(_)
StopsOf(ds) ==
    IF ds = <<>> THEN <<>>
    ELSE LET before == StopsOf(SubSeq(ds, 1, Len(ds) - 1))
             start  == IF before = <<>>
                       THEN POINT_INTERVAL_TIME + TIME_ZONE_DIFF
                       ELSE before[Len(before)].end_time + StopGap
         IN  Append(before, [latitude   |-> Grid * Len(ds),
                             longitude  |-> 0,
                             start_time |-> start,
                             end_time   |-> start + ds[Len(ds)]])

StopLists == {StopsOf(ds) : ds \in UNION {[1..n -> Durations] : n \in 0..MaxStops}}

\* ------------------------------------------------------- command line
\* A command line: --log LOG_LEVEL, -s STOP_MINUTES and the file path, each
\* possibly missing, the LOG_LEVEL of the environment, and what the path
\* names.
CommandLines ==
    [loglevel : {"absent", "debug", "bogus"},
     env      : {"unset", "bogus"},
     min_stop : {"absent", "number", "text"},
     file     : {"absent", "readable", "missing", "malformed"}]

\* The level names the logging module has as attributes.
LogLevels == {"debug", "info", "warning", "error", "critical"}

\* args.loglevel: the option, else the environment, else "info".
LogLevelOf(cl) ==
    IF cl.loglevel # "absent" THEN cl.loglevel
    ELSE IF cl.env # "unset" THEN cl.env
    ELSE "info"

\* parser.parse_args() accepts the command line.
Parses(cl) == cl.file # "absent" /\ cl.min_stop # "text"

\* The Namespace get_opt returns.
Namespace(cl) ==
    [loglevel |-> LogLevelOf(cl),
     min_stop |-> IF cl.min_stop = "absent" THEN 5 ELSE 10,
     filepath |-> cl.file]

\* The positional arguments main passes to rest_with_gps.
CallArguments(ns) == <<ns.filepath, ns.min_stop>>

\* The parameters rest_with_gps declares.
RestWithGpsParameters == <<"filepath">>

\* How the process ends: its exit code and what it wrote.
Exit(code, written_out, written_err) ==
    /\ cli_pc' = "exited"
    /\ exit_code' = code
    /\ stdout' = stdout \o written_out
    /\ stderr' = stderr \o written_err
    /\ UNCHANGED <<argv, args>>

CliUnchanged == UNCHANGED <<trackVars, markVars>>

\* signal.signal(signal.SIGTERM, sig_handler)
InstallHandler ==
    /\ cli_pc = "start"
    /\ cli_pc' = "installed"
    /\ UNCHANGED <<argv, args, stdout, stderr, exit_code>>
    /\ CliUnchanged

\* args = get_opt(); argparse exits with code 2 on a bad command line.
GetOpt ==
    /\ cli_pc = "installed"
    /\ IF Parses(argv)
       THEN /\ args' = Namespace(argv)
            /\ cli_pc' = "parsed"
            /\ UNCHANGED <<argv, stdout, stderr, exit_code>>
       ELSE Exit(2, <<>>, <<"usage">>)
    /\ CliUnchanged

\* logging.basicConfig(level=getattr(logging, args.loglevel.upper()))
ConfigureLogging ==
    /\ cli_pc = "parsed"
    /\ IF args.loglevel \in LogLevels
       THEN /\ cli_pc' = "logging"
            /\ UNCHANGED <<argv, args, stdout, stderr, exit_code>>
       ELSE Exit(1, <<>>, <<"AttributeError">>)
    /\ CliUnchanged

\* restwithgps.rest_with_gps(args.filepath, args.min_stop); print("Done");
\* return 0.  Python binds the arguments before the body runs and raises
\* TypeError when there are more of them than parameters.
CallRestWithGps ==
    /\ cli_pc = "logging"
    /\ IF Len(CallArguments(args)) # Len(RestWithGpsParameters)
       THEN Exit(1, <<>>, <<"TypeError">>)
       ELSE IF args.filepath = "readable"
       THEN Exit(0, <<"Done">>, <<>>)
       ELSE Exit(1, <<>>, <<"Error">>)
    /\ CliUnchanged

\* SIGTERM with the handler installed: sig_handler writes and exits.
SigTerm ==
    /\ cli_pc \in {"installed", "parsed", "logging"}
    /\ Exit(15, <<>>, <<"Terminated.">>)
    /\ CliUnchanged

\* SIGTERM before the handler is installed: the signal kills the process.
Killed ==
    /\ cli_pc = "start"
    /\ Exit(-15, <<>>, <<>>)
    /\ CliUnchanged

\* ------------------------------------------------------ specification
\* No map is being drawn.
MarkIdle ==
    /\ mark_pc = "idle"
    /\ mark_next = 1
    /\ markers = <<>>

\* No command line is running.
CliIdle ==
    /\ cli_pc = "idle"
    /\ argv = None
    /\ args = None
    /\ stdout = <<>>
    /\ stderr = <<>>
    /\ exit_code = None

\* get_stop_points is entered on a fresh point stream.
TrackInit ==
    /\ raw = <<>>
    /\ points = <<>>
    /\ held = None
    /\ exhausted = FALSE
    /\ out = <<>>
    /\ pc = "pull"
    /\ point = None
    /\ stop_points = <<>>
    /\ stop_point = None
    /\ prev_point = None
    /\ route = <<>>
    /\ prev_vector = 0
    /\ steps = <<>>
    /\ sizes = <<>>
    /\ result = None

Init == TrackInit /\ MarkIdle /\ CliIdle

Next ==
    \/ \E d \in Deltas, m \in Moves : Buffer(d, m)
    \/ \E d \in Deltas, m \in Moves : Emit(d, m)
    \/ Flush
    \/ ProcessFirst
    \/ ProcessZeroDivision
    \/ ProcessStopped
    \/ ProcessMoving
    \/ Return

Spec == Init /\ [][Next]_vars

\* _mark_stops is entered with the stops get_stop_points returned; the
\* locals of get_stop_points are gone.
InitMark ==
    /\ raw = <<>>
    /\ points = <<>>
    /\ held = None
    /\ exhausted = TRUE
    /\ out = <<>>
    /\ pc = "returned"
    /\ point = None
    /\ stop_points = <<>>
    /\ stop_point = None
    /\ prev_point = None
    /\ route = <<>>
    /\ prev_vector = 0
    /\ steps = <<>>
    /\ sizes = <<>>
    /\ \E stops \in StopLists : result = [stops |-> stops, route |-> <<>>]
    /\ mark_pc = "loop"
    /\ mark_next = 1
    /\ markers = <<>>
    /\ CliIdle

NextMark ==
    \/ MarkSkip
    \/ MarkPlace
    \/ MarkReturn

SpecMark == InitMark /\ [][NextMark]_vars

\* main is entered on some command line; no track is being analysed.
InitCli ==
    /\ TrackInit
    /\ MarkIdle
    /\ cli_pc = "start"
    /\ argv \in CommandLines
    /\ args = None
    /\ stdout = <<>>
    /\ stderr = <<>>
    /\ exit_code = None

NextCli ==
    \/ InstallHandler
    \/ GetOpt
    \/ ConfigureLogging
    \/ CallRestWithGps
    \/ SigTerm
    \/ Killed

SpecCli == InitCli /\ [][NextCli]_vars

\* ------------------------------------------------- claim vocabulary
\* The processed samples that began a run of consecutive stopped steps:
\* each of them opened a stop interval.
OpenedAt == {k \in 2..Len(steps) : steps[k] = "stopped" /\ steps[k - 1] # "stopped"}

\* The processed samples classified as moving right after a stopped step:
\* each of them closed a stop interval.
ClosedAt == {k \in 2..Len(steps) : steps[k] = "moving" /\ steps[k - 1] = "stopped"}

\* Seconds from sample p to sample s, days included.
TotalSeconds(p, s) == s.timestamp - p.timestamp

\* distance(p, s) / total seconds * 3600 < 5 km/h, for total seconds > 0.
SlowOverFullTime(p, s) ==
    get_distance(Pos(p), Pos(s)) * 3600 < MIN_SPEED * KmScale * TotalSeconds(p, s)

\* ---------------------------------------------------------------- C1
\* C1 (as claimed): every stop interval get_stop_points opens is in the
\* returned stops list, whether a moving step closed it or the stream ended
\* while it was open: the list returned has one entry per interval opened.
C1_EveryOpenedStopReturned ==
    pc = "returned" => Len(result.stops) = Cardinality(OpenedAt)

\* ---------------------------------------------------------------- C2
\* The resampled stream is three samples at one position, 10 s apart each.
ThreeStillSamples ==
    /\ Len(out) = 3
    /\ Pos(out[1]) = Pos(out[2])
    /\ Pos(out[2]) = Pos(out[3])
    /\ TotalSeconds(out[1], out[2]) = 10
    /\ TotalSeconds(out[2], out[3]) = 10

\* C2 (as claimed): on three samples at one position, 10 s apart, the
\* returned stops list holds exactly one interval, from the first sample's
\* timestamp to the last one's (both plus the display offset), 20 s long.
C2_ThreeStillSamplesOneStop ==
    (pc = "returned" /\ ThreeStillSamples) =>
        /\ Len(result.stops) = 1
        /\ result.stops[1].start_time = out[1].timestamp + TIME_ZONE_DIFF
        /\ result.stops[1].end_time = out[3].timestamp + TIME_ZONE_DIFF
        /\ result.stops[1].end_time - result.stops[1].start_time = 20

\* ---------------------------------------------------------------- C3
\* C3: when the stream ends on a stopped step, the interval open at that
\* point is not in the returned stops list, which holds exactly the
\* intervals a later moving step closed.
C3_OpenStopDiscarded ==
    pc = "returned" =>
        /\ Len(result.stops) = Cardinality(ClosedAt)
        /\ stop_point # None => stop_point \notin Range(result.stops)

C3_Witness ==
    /\ pc = "returned"
    /\ Len(steps) >= 2
    /\ steps[Len(steps)] = "stopped"
    /\ stop_point # None
    /\ Len(result.stops) >= 1

\* ---------------------------------------------------------------- C4
\* C4 (as claimed): the pipeline get_point -> get_stop_points never fails
\* with a division by zero, whatever the raw stream.
C4_NeverDividesByZero == pc # "crashed"

\* ---------------------------------------------------------------- C5
\* C5 (as claimed): a step is classified as stopped exactly when the
\* distance over the full elapsed time, days included, is below 5 km/h.
C5_ClassifiedByFullElapsedTime ==
    \A k \in 2..Len(steps) :
        (steps[k] = "stopped") <=> SlowOverFullTime(out[k - 1], out[k])

\* ---------------------------------------------------------------- C6
\* Every stop interval the analyzer holds: the open one and the closed ones.
HeldStops == Range(stop_points) \cup (IF stop_point # None THEN {stop_point} ELSE {})

\* C6: in every state of get_stop_points the open stop interval and every
\* interval of the stops list have start_time <= end_time.
C6_StartNotAfterEnd == \A sp \in HeldStops : sp.start_time <= sp.end_time

C6_Witness ==
    /\ stop_point # None
    /\ \E sp \in Range(stop_points) : sp.start_time < sp.end_time

\* ---------------------------------------------------------------- C7
\* The k-th yielded sample is the flush of the buffer at the end of input.
IsFlushed(k) == exhausted /\ k = Len(out)

\* C7: the timestamps get_point yields are non-decreasing, and consecutive
\* ones are at least the window width apart, except possibly the pair that
\* ends in the final flushed sample.
C7_ResampledTimestampsSpaced ==
    \A k \in 2..Len(out) :
        /\ out[k - 1].timestamp <= out[k].timestamp
        /\ ~IsFlushed(k) =>
               out[k].timestamp - out[k - 1].timestamp >= POINT_INTERVAL_TIME

C7_Witness ==
    /\ exhausted
    /\ Len(out) >= 3
    /\ Len(raw) > Len(out)
    /\ out[2].timestamp - out[1].timestamp = POINT_INTERVAL_TIME

\* ---------------------------------------------------------------- C8
\* The raw samples whose timestamp lies in [a, a + 10 s).
WindowOf(a) ==
    SelectSeq(raw, LAMBDA r : a <= r.timestamp /\ r.timestamp < a + POINT_INTERVAL_TIME)

\* The raw samples at or after time t.
RawFrom(t) == {i \in 1..Len(raw) : raw[i].timestamp >= t}

\* The anchor of the k-th bucket is the first raw sample buffered in it: the
\* first raw sample of all, or the first one past the previous bucket.
IsAnchorOf(k, a) ==
    IF k = 1 THEN a = raw[1].timestamp
    ELSE LET from == RawFrom(out[k - 1].timestamp + POINT_INTERVAL_TIME)
         IN  /\ from # {}
             /\ \E i \in from : raw[i].timestamp = a /\ \A j \in from : i <= j

\* C8: every sample get_point yields carries the anchor of its bucket as
\* timestamp and the arithmetic mean of exactly the raw samples in
\* [anchor, anchor + 10 s) as latitude and longitude.
C8_ResampledIsWindowMean ==
    \A k \in 1..Len(out) :
        LET w == WindowOf(out[k].timestamp)
        IN  /\ IsAnchorOf(k, out[k].timestamp)
            /\ w # <<>>
            /\ out[k].latitude * Len(w) = SumLat(w)
            /\ out[k].longitude * Len(w) = SumLon(w)

C8_Witness ==
    /\ exhausted
    /\ Len(out) >= 2
    /\ \E k \in 1..Len(out) :
           LET w == WindowOf(out[k].timestamp)
           IN  Len(w) >= 3 /\ \E i \in 1..Len(w) : Pos(w[i]) # Pos(out[k])

\* ---------------------------------------------------------------- C9
\* C9: once the first sample is processed, and in the returned result, the
\* first vertex of the route is the first resampled sample's position.
C9_RouteStartsAtFirstSample ==
    /\ Len(steps) >= 1 => Len(route) >= 1 /\ route[1] = Pos(out[1])
    /\ (pc = "returned" /\ Len(out) >= 1) =>
           Len(result.route) >= 1 /\ result.route[1] = Pos(out[1])

C9_Witness ==
    /\ pc = "returned"
    /\ Len(result.route) >= 3
    /\ result.route[1] = Pos(out[1])
    /\ \E k \in 2..Len(steps) : steps[k] = "moving"
    /\ \E k \in 2..Len(steps) : steps[k] = "stopped"

\* --------------------------------------------------------------- C10
\* Displacement of the step that ends in the k-th resampled sample.
StepVec(k) ==
    <<out[k].latitude - out[k - 1].latitude, out[k].longitude - out[k - 1].longitude>>

Dot(u, v) == u[1] * v[1] + u[2] * v[2]

\* The resampled stream is a straight line (all steps but the last have one
\* bearing) followed by a 90 degree turn in its last step.
StraightThenRightAngle ==
    LET n == Len(out)
    IN  /\ n >= 4
        /\ \A k \in 2..(n - 1) :
               /\ StepVec(k) # <<0, 0>>
               /\ get_vector(Pos(out[k - 1]), Pos(out[k]))
                      = get_vector(Pos(out[1]), Pos(out[2]))
        /\ StepVec(n) # <<0, 0>>
        /\ Dot(StepVec(n - 1), StepVec(n)) = 0

\* C10 (as claimed): for a straight line in any direction followed by a 90
\* degree turn, the returned route contains the first point, none of the
\* later points of the straight segment, and the vertex added at the turn.
C10_StraightSegmentSuppressed ==
    (pc = "returned" /\ StraightThenRightAngle) =>
        /\ Pos(out[1]) \in Range(result.route)
        /\ \A k \in 2..(Len(out) - 1) : Pos(out[k]) \notin Range(result.route)
        /\ Pos(out[Len(out)]) \in Range(result.route)

\* --------------------------------------------------------------- C11
\* C11: while a stop interval stays open, a step keeps its latitude,
\* longitude and start_time, and a step that appends to stops appends the
\* open interval as it was.
C11_OnlyEndTimeExtends ==
    [][/\ (stop_point # None /\ stop_point' # None) =>
              /\ stop_point'.latitude = stop_point.latitude
              /\ stop_point'.longitude = stop_point.longitude
              /\ stop_point'.start_time = stop_point.start_time
       /\ stop_points' # stop_points =>
              /\ stop_point # None
              /\ stop_points' = Append(stop_points, stop_point)]_vars

\* An open interval that was extended to a sample at another position than
\* the one it was opened at.
C11_Witness ==
    /\ stop_point # None
    /\ stop_point.start_time < stop_point.end_time
    /\ Pos(stop_point) # Pos(prev_point)

\* --------------------------------------------------------------- C12
IsPrefix(a, b) == Len(a) <= Len(b) /\ SubSeq(b, 1, Len(a)) = a

\* r is s with some elements left out, the order kept.
RECURSIVE IsSubsequence(_, _)
IsSubsequence(r, s) ==
    IF r = <<>> THEN TRUE
    ELSE IF s = <<>> THEN FALSE
    ELSE IF r[1] = s[1] THEN IsSubsequence(Tail(r), Tail(s))
    ELSE IsSubsequence(r, Tail(s))

\* The positions of the resampled samples, in order.
Positions == [k \in 1..Len(out) |-> Pos(out[k])]

\* C12: every step leaves the route a prefix of the route after it and adds
\* at most one vertex, only when a sample is processed; the returned route
\* is an order-preserving subsequence of the resampled positions.
C12_RouteAppendOnly ==
    [][/\ IsPrefix(route, route')
       /\ Len(route') - Len(route) <= Len(steps') - Len(steps)
       /\ pc' = "returned" => IsSubsequence(result'.route, Positions')]_vars

C12_Witness ==
    /\ pc = "returned"
    /\ Len(result.route) >= 3
    /\ Len(result.route) < Len(out)

\* --------------------------------------------------------------- C17
\* The first step of the run of consecutive stopped steps that ends in the
\* most recent step.
RunStart ==
    CHOOSE j \in 2..Len(steps) :
        /\ \A k \in j..Len(steps) : steps[k] = "stopped"
        /\ steps[j - 1] # "stopped"

\* C17: a stop interval is open exactly when at least two samples have been
\* processed and the most recent step was stopped; it then runs from the
\* sample that ended the first step of the current stopped run to the most
\* recent sample (both plus the display offset).
C17_OpenStopIsCurrentRun ==
    LET n == Len(steps)
    IN  /\ stop_point # None <=> (n >= 2 /\ steps[n] = "stopped")
        /\ stop_point # None =>
               /\ stop_point.start_time = out[RunStart].timestamp + TIME_ZONE_DIFF
               /\ stop_point.end_time = out[n].timestamp + TIME_ZONE_DIFF

C17_Witness ==
    /\ Len(steps) >= 4
    /\ stop_point # None
    /\ RunStart >= 3
    /\ RunStart < Len(steps)

\* --------------------------------------------------------------- C18
\* C18: the stops list is in chronological order without overlap (each
\* entry ends before the next one starts) and has one entry per run of
\* stopped steps that a moving step followed.
C18_StopsChronological ==
    /\ \A i \in 1..(Len(stop_points) - 1) :
           stop_points[i].end_time < stop_points[i + 1].start_time
    /\ Len(stop_points) = Cardinality(ClosedAt)

C18_Witness ==
    /\ Len(stop_points) >= 2
    /\ Cardinality(ClosedAt) >= 2

\* --------------------------------------------------------------- C16
RECURSIVE SumSeq(_)
SumSeq(q) == IF q = <<>> THEN 0 ELSE q[1] + SumSeq(Tail(q))

\* get_point has raised StopIteration and get_stop_points has returned.
GetPointEnded == pc = "returned"

\* The raw samples get_point holds that are in no yielded bucket yet: the
\* buffer, unless it was just yielded, and the point held across the yield.
NotYetYielded ==
    IF exhausted THEN 0
    ELSE IF held # None THEN 1
    ELSE Len(points)

\* What holds of the samples yielded so far.
CountedOnce ==
    /\ Len(sizes) = Len(out)
    /\ \A k \in 1..Len(sizes) : sizes[k] >= 1
    /\ SumSeq(sizes) + NotYetYielded = Len(raw)
    /\ GetPointEnded =>
           /\ SumSeq(sizes) = Len(raw)
           /\ raw = <<>> => out = <<>>
           /\ raw # <<>> =>
                  /\ Len(out) >= 1
                  /\ sizes[Len(sizes)] = Len(points)
                  /\ out[Len(out)] = Average(points)

\* Every yield uses up one raw sample or the end of the source, and nothing
\* is read or yielded after the end of the source.
UsesUpInput ==
    /\ out' # out =>
           /\ Len(out') = Len(out) + 1
           /\ Len(raw') = Len(raw) + 1 \/ (~exhausted /\ exhausted')
    /\ exhausted => (exhausted' /\ raw' = raw /\ out' = out)

\* C16: get_point ends after at most one yield per raw sample and one flush;
\* it yields one sample per bucket, and when it has ended the bucket sizes
\* sum to the number of raw samples: nothing is yielded for an empty stream,
\* and for a non-empty one the last sample yielded is the flush of the
\* buffer that remained.
C16_EveryRawSampleCountedOnce == []CountedOnce /\ [][UsesUpInput]_vars

C16_Witness ==
    /\ GetPointEnded
    /\ Len(raw) = MaxRaw
    /\ Len(out) >= 2
    /\ \E k \in 1..Len(sizes) : sizes[k] >= 2

\* --------------------------------------------------------------- C13
\* The stops the loop of _mark_stops has visited that are not skipped.
MarkedStops ==
    SelectSeq(SubSeq(result.stops, 1, mark_next - 1),
              LAMBDA sp : sp.end_time - sp.start_time >= MIN_STOP)

\* Seconds divided by 60, rounded half up.
RoundedMinutes(seconds) == (seconds + 30) \div 60

\* C13 (as claimed): get_elapsed_time returns the total number of seconds
\* from start_time to end_time over 60, rounded half up, also for a stop
\* lasting a day or longer.
C13_ElapsedIsTotalMinutes ==
    \A j \in 1..Len(markers) :
        j <= Len(MarkedStops) =>
            markers[j].elapsed_time
                = RoundedMinutes(MarkedStops[j].end_time - MarkedStops[j].start_time)

\* --------------------------------------------------------------- C15
\* C15: the markers placed are those of the visited stops lasting MIN_STOP
\* or longer, a stop of exactly MIN_STOP included, in the order of the list.
C15_MarkedIffLongEnough ==
    /\ Len(markers) = Len(MarkedStops)
    /\ \A j \in 1..Len(markers) : markers[j].location = Pos(MarkedStops[j])

C15_Witness ==
    /\ mark_pc = "done"
    /\ Len(markers) = 2
    /\ \E i \in 1..Len(result.stops) :
           result.stops[i].end_time - result.stops[i].start_time = MIN_STOP
    /\ \E i \in 1..Len(result.stops) :
           result.stops[i].end_time - result.stops[i].start_time = MIN_STOP - 1

\* --------------------------------------------------------------- C14
\* The command line is valid and names a readable, well-formed file.
GoodCommandLine ==
    /\ Parses(argv)
    /\ LogLevelOf(argv) \in LogLevels
    /\ argv.file = "readable"

\* The process ended and no termination signal had arrived.
ExitedUnsignalled == cli_pc = "exited" /\ exit_code \notin {15, -15}

\* C14 (as claimed): a run of main on a readable, well-formed file without a
\* termination signal prints "Done" and returns exit code 0.
C14_PrintsDoneExitsZero ==
    (GoodCommandLine /\ ExitedUnsignalled) =>
        /\ stdout = <<"Done">>
        /\ exit_code = 0

=============================================================================
